---- MODULE Spec2Model ----
(***************************************************************************)
(* Model of VhdlRegMapGenerator (src/ip_xact/vhdl_reg_map_generator.py):   *)
(* the generator that turns an IP-XACT address map (blocks, registers,     *)
(* fields) into a VHDL register block per memory block and one package of  *)
(* record types.                                                           *)
(*                                                                         *)
(* The address map and the word width are fixed at construction and never  *)
(* change; the mutable state is the generator's output buffer              *)
(* (vhdlGen.out), the output file, and whether a call raised.  The output  *)
(* text is modelled as a sequence of structured items (one per emitted     *)
(* construct) that carry the values the code computes for it.              *)
(*                                                                         *)
(* Bit vectors are sequences over {0,1}.  A VHDL literal such as "0101" is *)
(* the sequence <<0,1,0,1>>: position 1 is the leftmost character, that    *)
(* is, the most significant bit.  An integer reset value is kept as its    *)
(* binary numeral, least significant bit first, without leading zeros, so  *)
(* that values wider than the checker's integers can be represented.       *)
(***************************************************************************)
EXTENDS Integers, Sequences, FiniteSets, TLC

VARIABLES memMap, wrdWidthByte, out, of, raised, calls

vars == <<memMap, wrdWidthByte, out, of, raised, calls>>

(***************************************************************************)
(* Bounds of the checked instances.                                        *)
(***************************************************************************)
MaxRegs == 2
MaxFieldWidth == 3
MaxCalls == 1
MaxWordIndex == 3
MaxPassCalls == 4

(***************************************************************************)
(* Generic helpers.                                                        *)
(***************************************************************************)
Max(a, b) == IF a >= b THEN a ELSE b

Range(s) == {s[i] : i \in 1..Len(s)}

RECURSIVE Pow2(_)
Pow2(n) == IF n = 0 THEN 1 ELSE 2 * Pow2(n - 1)

Zeros(n) == [i \in 1..n |-> 0]

Ones(n) == [i \in 1..n |-> 1]

Reverse(s) == [i \in 1..Len(s) |-> s[Len(s) + 1 - i]]

\* Python's sorted(seq, key=lambda a: a.<key>): a stable sort, by insertion.
RECURSIVE InsertByKey(_, _, _)
InsertByKey(x, s, key) ==
    IF s = <<>> THEN <<x>>
    ELSE IF Head(s)[key] <= x[key]
         THEN <<Head(s)>> \o InsertByKey(x, Tail(s), key)
         ELSE <<x>> \o s

RECURSIVE sorted(_, _)
sorted(s, key) ==
    IF s = <<>> THEN <<>>
    ELSE InsertByKey(s[Len(s)], sorted(SubSeq(s, 1, Len(s) - 1), key), key)

\* Binary digits of a natural number, most significant first ("" for 0).
RECURSIVE BinMsb(_)
BinMsb(v) == IF v = 0 THEN <<>> ELSE BinMsb(v \div 2) \o <<v % 2>>

\* The numeral of a natural number, least significant bit first.
NatToNum(v) == Reverse(BinMsb(v))

\* Value of a most-significant-first bit string.
RECURSIVE MsbVal(_)
MsbVal(b) == IF b = <<>> THEN 0 ELSE 2 * MsbVal(SubSeq(b, 1, Len(b) - 1)) + b[Len(b)]

\* Bit j (0 = least significant) of a numeral.
NumBit(num, j) == IF j + 1 <= Len(num) THEN num[j + 1] ELSE 0

\* str.lower() on the names that occur in the checked address maps.
Lower(s) ==
    CASE s = "Ctrl" -> "ctrl"
      [] s = "Ram" -> "ram"
      [] s = "Dev" -> "dev"
      [] s = "RA" -> "ra"
      [] s = "RB" -> "rb"
      [] s = "RC" -> "rc"
      [] s = "RD" -> "rd"
      [] s = "Regs" -> "regs"
      [] OTHER -> s

Upper(s) ==
    CASE s = "RA" -> "RA"
      [] s = "ra" -> "RA"
      [] s = "rb" -> "RB"
      [] s = "rc" -> "RC"
      [] s = "rd" -> "RD"
      [] s = "p_ra" -> "P_RA"
      [] s = "p_rb" -> "P_RB"
      [] s = "p_rc" -> "P_RC"
      [] OTHER -> s

\* A name built by concatenation is the tuple of its parts.
LowerAll(parts) == [i \in 1..Len(parts) |-> Lower(parts[i])]

(***************************************************************************)
(* Python arithmetic.                                                      *)
(***************************************************************************)
\* Significand width of a Python float (IEEE 754 binary64).
MantissaBits == 53

RECURSIVE NumInc(_)
NumInc(num) ==
    IF num = <<>> THEN <<1>>
    ELSE IF num[1] = 0 THEN <<1>> \o Tail(num)
         ELSE <<0>> \o NumInc(Tail(num))

\* int(remainder / 2) on a non-negative int: "/" is true division, whose
\* result is the quotient rounded to the nearest float (ties to even), and
\* int() truncates it.  Exact while the value has at most 53 bits.
PyIntHalf(num) ==
    LET L == Len(num) IN
    IF L = 0 THEN <<>>
    ELSE IF L <= MantissaBits THEN Tail(num)
    ELSE LET m == SubSeq(num, L - MantissaBits + 1, L)
             guard == num[L - MantissaBits]
             sticky == \E i \in 1..(L - MantissaBits - 1) : num[i] = 1
             roundUp == guard = 1 /\ (sticky \/ m[1] = 1)
         IN  Zeros(L - MantissaBits - 1) \o (IF roundUp THEN NumInc(m) ELSE m)

\* remainder % 2 == 1
PyIsOdd(num) == Len(num) > 0 /\ num[1] = 1

\* "{:06b}".format(v): binary, zero-padded on the left to at least 6 digits.
Format06b(v) ==
    LET digits == IF v = 0 THEN <<0>> ELSE BinMsb(v)
    IN  Zeros(Max(0, 6 - Len(digits))) \o digits

\* sub in s, for the access strings of IP-XACT.
StrIn(sub, s) ==
    CASE sub = "read" -> s \in {"read-only", "read-write", "read-writeOnce"}
      [] sub = "write" -> s \in {"write-only", "read-write", "writeOnce", "read-writeOnce"}
      [] OTHER -> sub = s

(***************************************************************************)
(* Queries of the base class IpXactAddrGenerator.                          *)
(***************************************************************************)
RECURSIVE CeilLog2From(_, _)
CeilLog2From(n, k) == IF Pow2(k) >= n THEN k ELSE CeilLog2From(n, k + 1)

calc_addr_width_from_size(size) == CeilLog2From(size, 0)

calc_blk_wrd_count(block) == (block.range + wrdWidthByte - 1) \div wrdWidthByte

calc_wrd_address_width(block) == calc_addr_width_from_size(calc_blk_wrd_count(block))

reg_has_access_type(reg, accTypes) == \E t \in accTypes : StrIn(t, reg.access)

reg_is_access_type(reg, accTypes) == \E t \in accTypes : t = reg.access

AnyAccess == {"read", "write"}

is_reg_write_indicate(reg) == reg.writeInd

is_reg_read_indicate(reg) == reg.readInd

parameter_lookup(id) ==
    CASE id = "id_ra" -> "p_ra"
      [] id = "id_rb" -> "p_rb"
      [] id = "id_rc" -> "p_rc"
      [] OTHER -> id

WordOf(addr) == (addr \div wrdWidthByte) * wrdWidthByte

RegLastByte(reg) == reg.addressOffset + ((reg.size + 7) \div 8) - 1

\* <<low, high>>, or <<>> when no register matches.
calc_blk_wrd_span(block, accTypes) ==
    LET m == {i \in 1..Len(block.register) :
                  reg_has_access_type(block.register[i], accTypes)}
        lows == {WordOf(block.register[i].addressOffset) : i \in m}
        highs == {WordOf(RegLastByte(block.register[i])) : i \in m}
    IN  IF m = {} THEN <<>>
        ELSE << CHOOSE a \in lows : \A b \in lows : a <= b,
                CHOOSE a \in highs : \A b \in highs : a >= b >>

InWord(reg, wrd_addr) ==
    /\ reg.addressOffset < wrd_addr + wrdWidthByte
    /\ RegLastByte(reg) >= wrd_addr

get_regs_from_word(wrd_addr, block) ==
    LET Test(reg) == InWord(reg, wrd_addr) IN SelectSeq(block.register, Test)

\* 1-based position of the register's word among the populated words.
get_wrd_index(block, reg) ==
    Cardinality({w \in 0..WordOf(reg.addressOffset) :
                    /\ w % wrdWidthByte = 0
                    /\ get_regs_from_word(w, block) # <<>>})

(***************************************************************************)
(* Layout calculations of VhdlRegMapGenerator.                             *)
(***************************************************************************)
\* Variant of addr_vect_loop that appends each entry instead of prepending it.
RECURSIVE addr_vect_loop_append(_, _, _, _)
addr_vect_loop_append(block, wrd_addr, stop, vect_val) ==
    IF wrd_addr >= stop THEN vect_val
    ELSE IF get_regs_from_word(wrd_addr, block) = <<>>
         THEN addr_vect_loop_append(block, wrd_addr + wrdWidthByte, stop, vect_val)
         ELSE addr_vect_loop_append(block, wrd_addr + wrdWidthByte, stop,
                                    vect_val \o Format06b(wrd_addr \div wrdWidthByte))

\* The loop of calc_addr_vect_value, from wrd_addr up to (excluding) stop.
RECURSIVE addr_vect_loop(_, _, _, _)
addr_vect_loop(block, wrd_addr, stop, vect_val) ==
    IF wrd_addr >= stop THEN vect_val
    ELSE IF get_regs_from_word(wrd_addr, block) = <<>>
         THEN addr_vect_loop(block, wrd_addr + wrdWidthByte, stop, vect_val)
         ELSE addr_vect_loop(block, wrd_addr + wrdWidthByte, stop,
                             Format06b(wrd_addr \div wrdWidthByte) \o vect_val)

\* Defined when the block has a register; the call raises otherwise.
calc_addr_vect_value(block) ==
    LET span == calc_blk_wrd_span(block, AnyAccess)
    IN  addr_vect_loop(block, span[1], span[2] + wrdWidthByte, <<>>)

calc_addr_indices(block) ==
    << calc_addr_width_from_size(block.range) - 1,
       calc_addr_width_from_size(wrdWidthByte) >>

calc_reg_byte_enable_vector(reg) ==
    LET l_be_ind == reg.addressOffset % 4
        h_be_ind == l_be_ind + (reg.size \div 8) - 1
    IN  [h |-> h_be_ind, l |-> l_be_ind]

(***************************************************************************)
(* Masks.  A mask is built as a Python list indexed by bit number and is   *)
(* then reversed into the VHDL literal.                                    *)
(***************************************************************************)
\* lst[j] = "1" for every index j of the list with from <= j < to.
SetBits(lst, from, to) ==
    LET a == Max(0, from)
        b == IF to <= Len(lst) THEN to ELSE Len(lst)
    IN  IF a >= b THEN lst
        ELSE SubSeq(lst, 1, a) \o Ones(b - a) \o SubSeq(lst, b + 1, Len(lst))

\* Variant of data_mask_loop whose range stops one bit short of the field.
RECURSIVE data_mask_loop_short(_, _)
data_mask_loop_short(fields, data_mask) ==
    IF fields = <<>> THEN data_mask
    ELSE LET field == Head(fields)
         IN  data_mask_loop_short(Tail(fields),
                 IF field.bitWidth > 1
                 THEN SetBits(data_mask, field.bitOffset,
                              field.bitOffset + field.bitWidth - 1)
                 ELSE SetBits(data_mask, field.bitOffset, field.bitOffset + 1))

RECURSIVE data_mask_loop(_, _)
data_mask_loop(fields, data_mask) ==
    IF fields = <<>> THEN data_mask
    ELSE LET field == Head(fields)
         IN  data_mask_loop(Tail(fields),
                 IF field.bitWidth > 1
                 THEN SetBits(data_mask, field.bitOffset,
                              field.bitOffset + field.bitWidth)
                 ELSE SetBits(data_mask, field.bitOffset, field.bitOffset + 1))

calc_reg_data_mask(reg) ==
    Reverse(data_mask_loop(sorted(reg.field, "bitOffset"), Zeros(reg.size)))

\* The value of remainder after k rounds of remainder = int(remainder / 2).
RECURSIVE HalvedTimes(_, _)
HalvedTimes(remainder, k) ==
    IF remainder = <<>> \/ k = 0 THEN remainder
    ELSE IF k = 1 THEN PyIntHalf(remainder)
    ELSE HalvedTimes(HalvedTimes(remainder, k \div 2), k - (k \div 2))

\* The inner loop of calc_reg_rstval_mask over j: list index bitOffset + j is
\* set in round j when the remainder of that round is odd.
rstval_bits_loop(field, rst_mask) ==
    [i \in 1..Len(rst_mask) |->
        IF \E j \in 0..(field.bitWidth - 1) :
               /\ i - 1 = field.bitOffset + j
               /\ PyIsOdd(HalvedTimes(field.reset, j))
        THEN 1 ELSE rst_mask[i]]

RECURSIVE rstval_mask_loop(_, _)
rstval_mask_loop(fields, rst_mask) ==
    IF fields = <<>> THEN rst_mask
    ELSE rstval_mask_loop(Tail(fields), rstval_bits_loop(Head(fields), rst_mask))

calc_reg_rstval_mask(reg) ==
    Reverse(rstval_mask_loop(sorted(reg.field, "bitOffset"), Zeros(reg.size)))

\* Variant of autoclear_mask_loop that marks every bit of a "clear" field.
RECURSIVE autoclear_mask_loop_full(_, _)
autoclear_mask_loop_full(fields, autoclearMask) ==
    IF fields = <<>> THEN autoclearMask
    ELSE LET field == Head(fields)
         IN  autoclear_mask_loop_full(Tail(fields),
                 IF field.modifiedWriteValue = "clear"
                 THEN SetBits(autoclearMask, field.bitOffset,
                              field.bitOffset + field.bitWidth)
                 ELSE autoclearMask)

RECURSIVE autoclear_mask_loop(_, _)
autoclear_mask_loop(fields, autoclearMask) ==
    IF fields = <<>> THEN autoclearMask
    ELSE LET field == Head(fields)
         IN  autoclear_mask_loop(Tail(fields),
                 IF field.modifiedWriteValue = "clear"
                 THEN IF field.bitWidth > 1
                      THEN SetBits(autoclearMask, field.bitOffset,
                                   field.bitOffset + field.bitWidth - 1)
                      ELSE SetBits(autoclearMask, field.bitOffset,
                                   field.bitOffset + 1)
                 ELSE autoclearMask)

calc_autoclear_mask(reg) ==
    Reverse(autoclear_mask_loop(sorted(reg.field, "bitOffset"), Zeros(reg.size)))

(***************************************************************************)
(* Read word of one memory word.  The text of the word is the sequence of  *)
(* its operands and "&" separators; an operand is a register (by the name  *)
(* of the signal it is read from) or a byte of zeros.                      *)
(***************************************************************************)
RegOperand(name, size) == [item |-> "reg", name |-> name, bits |-> size]

ZeroByte == [item |-> "zeros", name |-> <<>>, bits |-> 8]

Amp == [item |-> "&", name |-> <<>>, bits |-> 0]

\* Variant of append_reg_byte_val that reads every register from the input
\* record.
append_reg_byte_val_in(block, reg, byte_ind, read_wrd) ==
    LET reg_offset == reg.addressOffset % wrdWidthByte
    IN  IF reg_offset = byte_ind
        THEN << FALSE,
                read_wrd
                  \o << RegOperand(LowerAll(<<block.name, "_in.", reg.name>>),
                                   reg.size) >>
                  \o (IF byte_ind # 0 THEN <<Amp>> ELSE <<>>) >>
        ELSE IF /\ reg_offset <= byte_ind
                /\ 8 * byte_ind <= 8 * reg_offset + reg.size - 8
             THEN <<FALSE, read_wrd>>
             ELSE <<TRUE, read_wrd>>

\* <<pad_zeroes, read_wrd>>
append_reg_byte_val(block, reg, byte_ind, read_wrd) ==
    LET reg_offset == reg.addressOffset % wrdWidthByte
        appendix == IF reg_is_access_type(reg, {"read-write"})
                    THEN "_out_i." ELSE "_in."
    IN  IF reg_offset = byte_ind
        THEN << FALSE,
                read_wrd
                  \o << RegOperand(LowerAll(<<block.name, appendix, reg.name>>),
                                   reg.size) >>
                  \o (IF byte_ind # 0 THEN <<Amp>> ELSE <<>>) >>
        \* reg_bytes = reg.size / 8 is a float: compare in eighths of a byte
        ELSE IF /\ reg_offset <= byte_ind
                /\ 8 * byte_ind <= 8 * reg_offset + reg.size - 8
             THEN <<FALSE, read_wrd>>
             ELSE <<TRUE, read_wrd>>

\* The inner loop of create_read_wrd_from_regs over the registers of the word.
RECURSIVE read_wrd_regs_loop(_, _, _, _)
read_wrd_regs_loop(block, regs, byte_ind, read_wrd) ==
    IF regs = <<>> THEN <<TRUE, read_wrd>>
    ELSE IF ~reg_has_access_type(Head(regs), {"read"})
         THEN read_wrd_regs_loop(block, Tail(regs), byte_ind, read_wrd)
         ELSE LET r == append_reg_byte_val(block, Head(regs), byte_ind, read_wrd)
              IN  IF r[1] = FALSE THEN r
                  ELSE read_wrd_regs_loop(block, Tail(regs), byte_ind, r[2])

\* The outer loop over the byte lanes, from byte_ind down to 0.
RECURSIVE read_wrd_bytes_loop(_, _, _, _)
read_wrd_bytes_loop(block, regs_in_wrd, byte_ind, read_wrd) ==
    IF byte_ind < 0 THEN read_wrd
    ELSE LET r == read_wrd_regs_loop(block, regs_in_wrd, byte_ind, read_wrd)
             next == IF r[1]
                     THEN r[2] \o <<ZeroByte>>
                               \o (IF byte_ind # 0 THEN <<Amp>> ELSE <<>>)
                     ELSE r[2]
         IN  read_wrd_bytes_loop(block, regs_in_wrd, byte_ind - 1, next)

create_read_wrd_from_regs(regs_in_wrd, block) ==
    read_wrd_bytes_loop(block, regs_in_wrd, wrdWidthByte - 1, <<>>)

(***************************************************************************)
(* Output items.  vhdlGen.out is a list of text lines; the model keeps one *)
(* item per emitted construct: the function that emitted it (sect), what   *)
(* it is (kind), the block it was generated for, and the values bound in   *)
(* it (p).                                                                 *)
(***************************************************************************)
Item(sect, kind, block, p) ==
    [sect |-> sect, kind |-> kind, block |-> block.name, p |-> p]

Comment(sect, block, text) == Item(sect, "comment", block, [text |-> text])

\* Lines 867-879 of write_reg_block.
intro_items(block) ==
    << Comment("write_reg_block", block,
               <<"Register map implementation of: ", block.name>>),
       Item("write_reg_block", "include", block,
            [lib |-> "ieee", pkgs |-> << <<"std_logic_1164.all">> >>]),
       Item("write_reg_block", "include", block,
            [lib |-> "work",
             pkgs |-> << <<Lower(memMap.name), "_pkg.all">>,
                         <<"cmn_reg_map_pkg.all">> >>]) >>

create_reg_ports(block) ==
    [reg_port \in {"out", "in"} |->
        [name |-> <<block.name, "_", reg_port>>,
         direction |-> reg_port,
         type |-> <<block.name, "_", reg_port, "_t">>]]

\* The generics dictionary: one entry per parameter name.
create_reg_cond_generics(block) ==
    {parameter_lookup(block.register[i].isPresent) :
        i \in {k \in 1..Len(block.register) : block.register[k].isPresent # ""}}

create_reg_block_template(block) ==
    << Item("create_reg_block_template", "entity", block,
            [name |-> <<Lower(block.name), "_reg_map">>,
             ports |-> create_reg_ports(block),
             generics |-> create_reg_cond_generics(block)]) >>

\* create_internal_decls raises when a word span it needs is empty.
internal_decls_raise(block) ==
    \/ calc_blk_wrd_span(block, AnyAccess) = <<>>
    \/ calc_blk_wrd_span(block, {"read"}) = <<>>

read_data_mux_in_width(block) ==
    LET span == calc_blk_wrd_span(block, {"read"})
    IN  ((span[2] + wrdWidthByte) - span[1]) * 8

create_internal_decls(block) ==
    [ reg_sel |-> [type |-> "std_logic", specifier |-> "signal",
                   bitWidth |-> calc_blk_wrd_count(block)],
      addr_vect |-> [type |-> "std_logic", specifier |-> "constant",
                     value |-> calc_addr_vect_value(block),
                     bitWidth |-> calc_blk_wrd_count(block)
                                    * calc_wrd_address_width(block)],
      read_data_mux_in |-> [type |-> "std_logic", specifier |-> "signal",
                            bitWidth |-> read_data_mux_in_width(block)],
      read_data_mask_n |-> [type |-> "std_logic", specifier |-> "signal",
                            bitWidth |-> wrdWidthByte * 8],
      write_data_int |-> [name |-> <<block.name, "_out", "_i">>,
                          type |-> <<block.name, "_out", "_t">>,
                          specifier |-> "signal"],
      read_mux_ena |-> [type |-> "std_logic", specifier |-> "signal",
                        bitWidth |-> 1] ]

architecture_items(block) ==
    << Item("create_internal_decls", "architecture", block,
            [name |-> "rtl",
             entity |-> <<Lower(block.name), "_reg_map">>,
             decls |-> create_internal_decls(block)]) >>

create_addr_decoder(block) ==
    << Comment("create_addr_decoder", block, <<"Write address to One-hot decoder">>),
       Item("create_addr_decoder", "instance", block,
            [comp |-> "address_decoder",
             name |-> <<"address_decoder", "_", Lower(block.name), "_comp">>,
             generics |-> [address_width |-> calc_wrd_address_width(block),
                           address_entries |-> calc_blk_wrd_count(block),
                           addr_vect |-> "ADDR_VECT",
                           registered_out |-> "false",
                           reset_polarity |-> "RESET_POLARITY"],
             ports |-> [clk_sys |-> "clk_sys", res_n |-> "res_n",
                        address |-> [h |-> calc_addr_indices(block)[1],
                                     l |-> calc_addr_indices(block)[2]],
                        addr_dec |-> "reg_sel",
                        enable |-> "cs"]]) >>

fill_reg_inst_generics(reg) ==
    [data_width |-> reg.size,
     data_mask |-> calc_reg_data_mask(reg),
     reset_polarity |-> "RESET_POLARITY",
     reset_value |-> calc_reg_rstval_mask(reg),
     auto_clear |-> calc_autoclear_mask(reg)]

fill_reg_ports(block, reg) ==
    LET l_ind == (reg.addressOffset * 8) % (wrdWidthByte * 8)
        h_ind == l_ind + reg.size - 1
    IN  [clk_sys |-> "clk_sys", res_n |-> "res_n",
         reg_value |-> LowerAll(<<block.name, "_out_i.", reg.name>>),
         data_in |-> [h |-> h_ind, l |-> l_ind],
         write |-> "write",
         cs |-> get_wrd_index(block, reg) - 1,
         w_be |-> calc_reg_byte_enable_vector(reg)]

create_reg_instance(block, reg) ==
    LET inst == Item("create_reg_instance", "instance", block,
                     [comp |-> "memory_reg",
                      reg |-> reg.name,
                      name |-> <<Lower(reg.name), "_reg_comp">>,
                      generics |-> fill_reg_inst_generics(reg),
                      ports |-> fill_reg_ports(block, reg)])
        paramName == parameter_lookup(reg.isPresent)
        hdr == Comment("create_reg_instance", block, <<Upper(reg.name), " register">>)
    IN  IF reg.isPresent # ""
        THEN << hdr,
                Item("create_reg_instance", "if_generate", block,
                     [reg |-> reg.name,
                      name |-> <<reg.name, "_present_gen_t">>,
                      condition |-> Upper(paramName), value |-> "true"]),
                inst,
                Item("create_reg_instance", "end_generate", block,
                     [reg |-> reg.name]),
                Item("create_reg_instance", "if_generate", block,
                     [reg |-> reg.name,
                      name |-> <<reg.name, "_present_gen_f">>,
                      condition |-> Upper(paramName), value |-> "false"]),
                Item("create_reg_instance", "connection", block,
                     [reg |-> reg.name,
                      result |-> LowerAll(<<block.name, "_out.", reg.name>>),
                      driver |-> calc_reg_rstval_mask(reg)]),
                Item("create_reg_instance", "end_generate", block,
                     [reg |-> reg.name]) >>
        ELSE << hdr, inst >>

\* Variant of fill_access_signaller_generics with a combinational write
\* indication.
fill_access_signaller_generics_comb(reg) ==
    [reset_polarity |-> "RESET_POLARITY",
     data_width |-> reg.size,
     read_signalling |-> is_reg_read_indicate(reg),
     read_signalling_reg |-> FALSE,
     write_signalling |-> is_reg_write_indicate(reg),
     write_signalling_reg |-> FALSE]

fill_access_signaller_generics(reg) ==
    [reset_polarity |-> "RESET_POLARITY",
     data_width |-> reg.size,
     read_signalling |-> is_reg_read_indicate(reg),
     read_signalling_reg |-> FALSE,
     write_signalling |-> is_reg_write_indicate(reg),
     write_signalling_reg |-> is_reg_write_indicate(reg)]

fill_access_signaller_ports(block, reg) ==
    [clk_sys |-> "clk_sys", res_n |-> "res_n",
     cs |-> get_wrd_index(block, reg) - 1,
     read |-> "read", write |-> "write",
     be |-> calc_reg_byte_enable_vector(reg),
     write_signal |-> IF is_reg_write_indicate(reg)
                      THEN LowerAll(<<block.name, "_out_i.", reg.name, "_write">>)
                      ELSE <<"open">>,
     read_signal |-> IF is_reg_read_indicate(reg)
                     THEN LowerAll(<<block.name, "_out_i.", reg.name, "_read">>)
                     ELSE <<"open">>]

create_access_signaller(block, reg) ==
    << Comment("create_access_signaller", block,
               <<Upper(reg.name), " access signallization">>),
       Item("create_access_signaller", "instance", block,
            [comp |-> "access_signaler",
             reg |-> reg.name,
             name |-> <<Lower(reg.name), "_access_signaller_comp">>,
             generics |-> fill_access_signaller_generics(reg),
             ports |-> fill_access_signaller_ports(block, reg)]) >>

\* The loop of create_write_reg_instances over the sorted registers.
RECURSIVE write_reg_instances_loop(_, _)
write_reg_instances_loop(block, regs) ==
    IF regs = <<>> THEN <<>>
    ELSE LET reg == Head(regs)
         IN  (IF reg_has_access_type(reg, {"write"})
              THEN create_reg_instance(block, reg) ELSE <<>>)
             \o (IF is_reg_write_indicate(reg) \/ is_reg_read_indicate(reg)
                 THEN create_access_signaller(block, reg) ELSE <<>>)
             \o write_reg_instances_loop(block, Tail(regs))

\* Variant of create_write_reg_instances that keeps the order of the register
\* list.
create_write_reg_instances_unsorted(block) ==
    write_reg_instances_loop(block, block.register)

create_write_reg_instances(block) ==
    write_reg_instances_loop(block, sorted(block.register, "addressOffset"))

create_read_data_mux_ena(block) ==
    << Comment("create_read_data_mux_ena", block, <<"Read data multiplexor enable ">>),
       Item("create_read_data_mux_ena", "if_generate", block,
            [name |-> <<"read_data_keep_gen">>,
             condition |-> "CLEAR_READ_DATA", value |-> "false"]),
       Item("create_read_data_mux_ena", "connection", block,
            [result |-> <<"read_mux_ena">>, driver |-> <<"read and cs">>]),
       Item("create_read_data_mux_ena", "end_generate", block, [name |-> <<>>]),
       Item("create_read_data_mux_ena", "if_generate", block,
            [name |-> <<"read_data_clear_gen">>,
             condition |-> "CLEAR_READ_DATA", value |-> "true"]),
       Item("create_read_data_mux_ena", "connection", block,
            [result |-> <<"read_mux_ena">>, driver |-> <<"'1'">>]),
       Item("create_read_data_mux_ena", "end_generate", block, [name |-> <<>>]) >>

create_read_data_mux_instance(block) ==
    LET ind == calc_addr_indices(block)
    IN  << Comment("create_read_data_mux_instance", block, <<"Read data multiplexor">>),
           Item("create_read_data_mux_instance", "instance", block,
                [comp |-> "data_mux",
                 name |-> LowerAll(<<"data_mux", "_", block.name, "_comp">>),
                 generics |-> [data_out_width |-> wrdWidthByte * 8,
                               data_in_width |-> read_data_mux_in_width(block),
                               sel_width |-> ind[1] - ind[2] + 1,
                               registered_out |-> "REGISTERED_READ",
                               reset_polarity |-> "RESET_POLARITY"],
                 ports |-> [clk_sys |-> "clk_sys", res_n |-> "res_n",
                            data_selector |-> [h |-> ind[1], l |-> ind[2]],
                            data_in |-> "read_data_mux_in",
                            data_mask_n |-> "read_data_mask_n",
                            data_out |-> "r_data",
                            enable |-> "read_mux_ena"]]) >>

\* The loop of create_read_data_mux_in, from addr down to low_addr.
RECURSIVE read_data_mux_in_loop(_, _, _)
read_data_mux_in_loop(block, addr, low_addr) ==
    IF addr < low_addr THEN <<>>
    ELSE << Item("create_read_data_mux_in", "read_word", block,
                 [addr |-> addr,
                  value |-> create_read_wrd_from_regs(
                                get_regs_from_word(addr, block), block),
                  terminator |-> IF addr = low_addr THEN ";" ELSE "&"]) >>
         \o read_data_mux_in_loop(block, addr - wrdWidthByte, low_addr)

create_read_data_mux_in(block) ==
    LET span == calc_blk_wrd_span(block, {"read"})
    IN  << Comment("create_read_data_mux_in", block, <<"Read data driver">>) >>
        \o read_data_mux_in_loop(block, span[2], span[1])

create_read_data_mask_driver(block) ==
    << Comment("create_read_data_mask_driver", block,
               <<"Read data mask - Byte enables">>),
       Item("create_read_data_mask_driver", "mask_driver", block,
            [bytes |-> [i \in 1..wrdWidthByte |->
                           [be |-> wrdWidthByte - i, copies |-> 8]]]) >>

create_write_reg_record_driver(block) ==
    << Item("create_write_reg_record_driver", "connection", block,
            [result |-> <<block.name, "_out">>,
             driver |-> <<block.name, "_out", "_i">>]) >>

create_psl_cover_point(block, reg, acc_type) ==
    LET l_be_ind == reg.addressOffset % 4
        h_be_ind == l_be_ind + (reg.size \div 8) - 1
    IN  << Item("create_psl_cover_point", "cover", block,
                [reg |-> reg.name,
                 name |-> <<Lower(reg.name), "_", acc_type, "_access_cov">>,
                 acc_type |-> acc_type,
                 reg_sel |-> get_wrd_index(block, reg) - 1,
                 be |-> [h |-> h_be_ind, l |-> l_be_ind]]) >>

RECURSIVE psl_cover_points_loop(_, _)
psl_cover_points_loop(block, regs) ==
    IF regs = <<>> THEN <<>>
    ELSE LET reg == Head(regs)
         IN  (IF reg_has_access_type(reg, {"write"})
              THEN create_psl_cover_point(block, reg, "write") ELSE <<>>)
             \o (IF reg_has_access_type(reg, {"read"})
                 THEN create_psl_cover_point(block, reg, "read") ELSE <<>>)
             \o psl_cover_points_loop(block, Tail(regs))

create_psl_cover_points(block) ==
    << Comment("create_psl_cover_points", block, <<"PSL functional coverage">>),
       Comment("create_psl_cover_points", block,
               <<" psl default clock is rising_edge(clk_sys);">>) >>
    \o psl_cover_points_loop(block, sorted(block.register, "addressOffset"))

\* Everything write_reg_block appends to vhdlGen.out before it returns or
\* raises.
write_reg_block_items(block) ==
    intro_items(block) \o create_reg_block_template(block)
    \o (IF internal_decls_raise(block) THEN <<>>
        ELSE architecture_items(block)
             \o create_addr_decoder(block)
             \o create_write_reg_instances(block)
             \o create_read_data_mux_ena(block)
             \o create_read_data_mux_instance(block)
             \o create_read_data_mux_in(block)
             \o create_read_data_mask_driver(block)
             \o create_write_reg_record_driver(block)
             \o create_psl_cover_points(block)
             \o << Item("write_reg_block", "end_architecture", block,
                        [name |-> "rtl"]) >>)

(***************************************************************************)
(* Record types and the package.                                           *)
(***************************************************************************)
Decl(name, type, bitWidth) == [name |-> name, type |-> type, bitWidth |-> bitWidth]

RECURSIVE output_reg_record_loop(_)
output_reg_record_loop(regs) ==
    IF regs = <<>> THEN <<>>
    ELSE LET reg == Head(regs)
         IN  (IF StrIn("write", reg.access)
              THEN << Decl(<<reg.name>>, "std_logic_vector", reg.size) >>
              ELSE <<>>)
             \o (IF is_reg_write_indicate(reg)
                 THEN << Decl(<<reg.name, "_update">>, "std_logic", 1) >>
                 ELSE <<>>)
             \o (IF is_reg_read_indicate(reg)
                 THEN << Decl(<<reg.name, "_read">>, "std_logic", 1) >>
                 ELSE <<>>)
             \o output_reg_record_loop(Tail(regs))

\* Variant of create_output_reg_record that keeps the order of the register
\* list.
create_output_reg_record_unsorted(block) ==
    << Item("create_output_reg_record", "record", block,
            [name |-> <<block.name, "_out_t">>,
             decls |-> output_reg_record_loop(block.register)]) >>

create_output_reg_record(block) ==
    << Item("create_output_reg_record", "record", block,
            [name |-> <<block.name, "_out_t">>,
             decls |-> output_reg_record_loop(
                           sorted(block.register, "addressOffset"))]) >>

\* Variant of input_reg_record_loop that also takes read-write registers.
RECURSIVE input_reg_record_loop_rw(_)
input_reg_record_loop_rw(regs) ==
    IF regs = <<>> THEN <<>>
    ELSE LET reg == Head(regs)
         IN  (IF StrIn("read", reg.access)
              THEN << Decl(<<reg.name>>, "std_logic_vector", reg.size) >>
              ELSE <<>>)
             \o input_reg_record_loop_rw(Tail(regs))

RECURSIVE input_reg_record_loop(_)
input_reg_record_loop(regs) ==
    IF regs = <<>> THEN <<>>
    ELSE LET reg == Head(regs)
         IN  (IF StrIn("read", reg.access) /\ reg.access # "read-write"
              THEN << Decl(<<reg.name>>, "std_logic_vector", reg.size) >>
              ELSE <<>>)
             \o input_reg_record_loop(Tail(regs))

create_input_reg_record(block) ==
    << Item("create_input_reg_record", "record", block,
            [name |-> <<block.name, "_in_t">>,
             decls |-> input_reg_record_loop(
                           sorted(block.register, "addressOffset"))]) >>

create_mem_block_records(block) ==
    create_output_reg_record(block) \o create_input_reg_record(block)

\* Variant of reg_map_pkg_loop that does not skip memory blocks.
RECURSIVE reg_map_pkg_loop_all(_)
reg_map_pkg_loop_all(blocks) ==
    IF blocks = <<>> THEN <<>>
    ELSE create_mem_block_records(Head(blocks)) \o reg_map_pkg_loop_all(Tail(blocks))

\* The loop of write_reg_map_pkg over memMap.addressBlock.
RECURSIVE reg_map_pkg_loop(_)
reg_map_pkg_loop(blocks) ==
    IF blocks = <<>> THEN <<>>
    ELSE (IF Head(blocks).usage = "memory" THEN <<>>
          ELSE create_mem_block_records(Head(blocks)))
         \o reg_map_pkg_loop(Tail(blocks))

NoBlock == [name |-> ""]

write_reg_map_pkg_items ==
    << Comment("write_reg_map_pkg", NoBlock,
               <<"Register map package for: ", memMap.name>>),
       Item("write_reg_map_pkg", "include", NoBlock,
            [lib |-> "ieee", pkgs |-> << <<"std_logic_1164.all">> >>]),
       Item("write_reg_map_pkg", "package", NoBlock,
            [name |-> <<Lower(memMap.name), "_pkg">>]) >>
    \o reg_map_pkg_loop(memMap.addressBlock)
    \o << Item("write_reg_map_pkg", "end_package", NoBlock,
               [name |-> <<Lower(memMap.name), "_pkg">>]) >>

(***************************************************************************)
(* The address maps the generator is constructed with.  The IP-XACT model  *)
(* is read-only input; the checked instances are drawn from the families   *)
(* below.  Registers do not straddle words, two readable registers do not  *)
(* share a byte, and neither do two writable ones; fields lie inside their *)
(* register and do not overlap.                                            *)
(***************************************************************************)
Field(bitOffset, bitWidth, reset, mwv) ==
    [bitOffset |-> bitOffset, bitWidth |-> bitWidth, reset |-> reset,
     modifiedWriteValue |-> mwv]

Reg(name, addressOffset, size, access, isPresent, writeInd, readInd, field) ==
    [name |-> name, addressOffset |-> addressOffset, size |-> size,
     access |-> access, isPresent |-> isPresent, writeInd |-> writeInd,
     readInd |-> readInd, field |-> field]

Block(name, range, usage, register) ==
    [name |-> name, baseAddress |-> 0, range |-> range, usage |-> usage,
     register |-> register]

Map(blocks) == [name |-> "Regs", addressBlock |-> blocks]

RegNames == <<"RA", "RB", "RC", "RD">>

AccessKinds == {"read-only", "write-only", "read-write"}

Shape(addressOffset, size, access) ==
    [addressOffset |-> addressOffset, size |-> size, access |-> access]

BytesOverlap(a, b) ==
    /\ a.addressOffset < b.addressOffset + (b.size \div 8)
    /\ b.addressOffset < a.addressOffset + (a.size \div 8)

Conflict(a, b) ==
    /\ BytesOverlap(a, b)
    /\ \/ StrIn("read", a.access) /\ StrIn("read", b.access)
       \/ StrIn("write", a.access) /\ StrIn("write", b.access)

\* Register lists of up to n registers whose shapes come from options.
RegLists(options, n) ==
    UNION { { [i \in 1..k |-> Reg(RegNames[i], f[i].addressOffset, f[i].size,
                                  f[i].access, "", FALSE, FALSE, <<>>)] :
              f \in { g \in [1..k -> options] :
                         \A i, j \in 1..k : i < j => ~Conflict(g[i], g[j]) } } :
            k \in 0..n }

\* Family 1: which words of the block are populated.
PopulationShapes(w) ==
    { Shape(word * w, 8, a) : word \in 0..MaxWordIndex, a \in AccessKinds }

\* Family 2: how the byte lanes of the words are occupied, for a block of
\* one 4-byte word and a block of two 2-byte words.
LaneShapes(range) ==
    { Shape(lane, sz, a) :
        lane \in 0..(range - 1), sz \in {8, 16, 32}, a \in AccessKinds }

FitsWord(shape, w) == (shape.addressOffset % w) + (shape.size \div 8) <= w

LayoutInputs ==
    { [map |-> Map(<<Block("Ctrl", (MaxWordIndex + 1) * 4, "register", regs)>>),
       w |-> 4] :
      regs \in RegLists(PopulationShapes(4), MaxRegs) }
    \cup
    UNION { { [map |-> Map(<<Block("Ctrl", 4, "register", regs)>>), w |-> w] :
              regs \in RegLists({sh \in LaneShapes(4) : FitsWord(sh, w)},
                                MaxRegs) } :
            w \in {2, 4} }

\* Family 3: access kind, access indication and presence condition.
FlagVariants(name, addressOffset, size) ==
    { Reg(name, addressOffset, size, a, p, wi, ri, <<>>) :
        a \in AccessKinds, p \in {"", "id_" \o Lower(name)},
        wi \in BOOLEAN, ri \in BOOLEAN }

FlagInputs ==
    { [map |-> Map(<<Block("Dev", 8, "register", <<rb, ra>>)>>), w |-> 4] :
        ra \in FlagVariants("RA", 0, 8), rb \in FlagVariants("RB", 5, 16) }

\* Family 4: the fields of one register.
ModifiedWriteValues == {"", "clear", "oneToClear"}

SingleFields(size, maxWidth) ==
    { Field(o, wd, NatToNum(v), m) :
        o \in 0..(size - 1), wd \in 1..maxWidth,
        v \in 0..(Pow2(maxWidth) - 1), m \in ModifiedWriteValues }

WellFormedField(f, size) ==
    /\ f.bitOffset + f.bitWidth <= size
    /\ Len(f.reset) <= f.bitWidth

FieldsOverlap(f, g) ==
    /\ f.bitOffset < g.bitOffset + g.bitWidth
    /\ g.bitOffset < f.bitOffset + f.bitWidth

FieldLists(size) ==
    LET one == {f \in SingleFields(size, MaxFieldWidth) : WellFormedField(f, size)}
        small == {f \in one : /\ f.bitWidth < MaxFieldWidth
                              /\ f.modifiedWriteValue # "oneToClear"
                              /\ f.reset = Ones(f.bitWidth)}
    IN  {<<>>} \cup {<<f>> : f \in one}
        \cup {<<p[1], p[2]>> : p \in {q \in small \X small : ~FieldsOverlap(q[1], q[2])}}

\* Fields wider than the significand of a float.
WideFieldLists ==
    { <<Field(0, 54, Ones(54), "")>>,
      <<Field(1, 55, Ones(55), "clear")>>,
      <<Field(0, 54, Zeros(53) \o <<1>>, "")>>,
      <<Field(0, 53, Ones(53), ""), Field(53, 3, <<1, 0, 1>>, "clear")>> }

MaskInputs ==
    { [map |-> Map(<<Block("Ctrl", 4, "register",
                           <<Reg("RA", 1, 8, "read-write", "", FALSE, FALSE, fl)>>)>>),
       w |-> 4] : fl \in FieldLists(8) }
    \cup
    { [map |-> Map(<<Block("Ctrl", 8, "register",
                           <<Reg("RA", 0, 56, "read-write", "", FALSE, FALSE, fl)>>)>>),
       w |-> 8] : fl \in WideFieldLists }

\* Family 5: address maps of several blocks, some of them memories.
CtrlRegs ==
    << Reg("RC", 13, 8, "read-only", "", FALSE, FALSE, <<>>),
       Reg("RA", 0, 16, "read-write", "", FALSE, FALSE, <<>>),
       Reg("RB", 2, 8, "read-only", "", FALSE, FALSE, <<>>) >>

RamRegs ==
    << Reg("RB", 4, 16, "read-only", "", FALSE, TRUE, <<>>),
       Reg("RA", 0, 16, "write-only", "", TRUE, FALSE, <<>>) >>

DevRegs ==
    << Reg("RC", 2, 8, "read-write", "", FALSE, FALSE, <<>>),
       Reg("RA", 0, 8, "write-only", "", FALSE, FALSE, <<>>) >>

BlockChoices ==
    { Block("Ctrl", 16, u, CtrlRegs) : u \in {"register", "memory"} }
    \cup { Block("Ram", 8, u, RamRegs) : u \in {"register", "memory"} }
    \cup { Block("Dev", 4, u, DevRegs) : u \in {"register", "memory"} }

MapInputs ==
    { [map |-> Map(<<p[1], p[2]>>), w |-> 4] :
        p \in {q \in BlockChoices \X BlockChoices : q[1].name # q[2].name} }

Inputs == LayoutInputs \cup FlagInputs \cup MaskInputs \cup MapInputs

\* Address maps that break the rules above: a register with overlapping
\* fields, with a width that is not a multiple of 8, or with a reset value
\* wider than its field.
MalformedFieldLists ==
    { <<Field(0, 2, <<>>, ""), Field(1, 2, <<>>, "")>>,
      <<Field(4, 3, <<>>, "clear"), Field(2, 3, NatToNum(1), "")>>,
      <<Field(0, 2, NatToNum(7), "")>>,
      <<Field(2, 1, NatToNum(2), "")>> }

MalformedRegs ==
    { Reg("RA", 0, 8, a, "", FALSE, FALSE, fl) :
        a \in {"read-write", "write-only"}, fl \in MalformedFieldLists }
    \cup
    { Reg("RA", 0, sz, a, "", FALSE, FALSE, <<>>) :
        a \in {"read-write", "write-only"}, sz \in {4, 12, 20} }

MalformedInputs ==
    { [map |-> Map(<<Block("Dev", 4, "register", regs)>>), w |-> 4] :
        regs \in { <<bad>> : bad \in MalformedRegs }
                 \cup { <<Reg("RB", 2, 8, "read-only", "", FALSE, FALSE, <<>>), bad>> :
                        bad \in MalformedRegs } }

(***************************************************************************)
(* The generator.                                                          *)
(***************************************************************************)
Init ==
    /\ \E in \in Inputs : memMap = in.map /\ wrdWidthByte = in.w
    /\ out = <<>>
    /\ of = <<>>
    /\ raised = FALSE
    /\ calls = 0

\* The number of calls a run is followed for.  What one call emits depends on
\* the model alone, so the runs on the single-block maps are short; the maps
\* of several blocks are followed long enough for a block to be generated
\* and committed twice.
CallBound ==
    IF Len(memMap.addressBlock) > 1 THEN MaxPassCalls ELSE MaxCalls

\* The generator constructed with a malformed address map.
InitMalformed ==
    /\ \E in \in MalformedInputs : memMap = in.map /\ wrdWidthByte = in.w
    /\ out = <<>>
    /\ of = <<>>
    /\ raised = FALSE
    /\ calls = 0

\* write_reg_block(block): an exception of create_internal_decls ends the
\* run with the lines written so far left in the buffer.
write_reg_block(block) ==
    /\ ~raised
    /\ calls < CallBound
    /\ out' = out \o write_reg_block_items(block)
    /\ raised' = internal_decls_raise(block)
    /\ calls' = calls + 1
    /\ UNCHANGED <<memMap, wrdWidthByte, of>>

write_reg_map_pkg ==
    /\ ~raised
    /\ calls < CallBound
    /\ out' = out \o write_reg_map_pkg_items
    /\ calls' = calls + 1
    /\ UNCHANGED <<memMap, wrdWidthByte, of, raised>>

\* Variant of commit_to_file that does not empty the buffer.
commit_to_file_keep ==
    /\ ~raised
    /\ calls < CallBound
    /\ of' = of \o out
    /\ out' = out
    /\ calls' = calls + 1
    /\ UNCHANGED <<memMap, wrdWidthByte, raised>>

commit_to_file ==
    /\ ~raised
    /\ calls < CallBound
    /\ of' = of \o out
    /\ out' = <<>>
    /\ calls' = calls + 1
    /\ UNCHANGED <<memMap, wrdWidthByte, raised>>

Next ==
    \/ \E i \in 1..Len(memMap.addressBlock) : write_reg_block(memMap.addressBlock[i])
    \/ write_reg_map_pkg
    \/ commit_to_file

Spec == Init /\ [][Next]_vars

SpecMalformed == InitMalformed /\ [][Next]_vars

TypeOK ==
    /\ wrdWidthByte \in {2, 4, 8}
    /\ raised \in BOOLEAN
    /\ calls \in 0..CallBound

(***************************************************************************)
(* Properties.                                                             *)
(***************************************************************************)
\* Everything emitted so far: the file contents followed by the buffer.
Emitted == of \o out

ItemsOf(kind) == {i \in 1..Len(Emitted) : Emitted[i].kind = kind}

InstancesOf(comp) ==
    {i \in ItemsOf("instance") : Emitted[i].p.comp = comp}

BlockNamed(name) ==
    CHOOSE b \in Range(memMap.addressBlock) : b.name = name

RegNamed(block, name) ==
    CHOOSE r \in Range(block.register) : r.name = name

\* Word indices of the words of a block that hold at least one register.
PopulatedWords(block) ==
    { wi \in 0..(calc_blk_wrd_count(block) - 1) :
        \E r \in Range(block.register) :
            /\ r.addressOffset < (wi + 1) * wrdWidthByte
            /\ r.addressOffset + (r.size \div 8) > wi * wrdWidthByte }

\* Digits of one entry as calc_addr_vect_value formats it.
EntryDigits == 6

\* The entries of an address vector, left to right, as numbers.
RECURSIVE VectEntries(_)
VectEntries(v) ==
    IF Len(v) < EntryDigits THEN <<>>
    ELSE <<MsbVal(SubSeq(v, 1, EntryDigits))>>
         \o VectEntries(SubSeq(v, EntryDigits + 1, Len(v)))

AddrVectOf(i) == Emitted[i].p.decls.addr_vect.value

AddrVectOK(block, vect_val) ==
    LET entries == VectEntries(vect_val)
    IN  /\ Len(vect_val) = EntryDigits * Len(entries)
        /\ Range(entries) = PopulatedWords(block)
        /\ \A j, k \in 1..Len(entries) : j < k => entries[j] > entries[k]

\* C1: the address vector of every block that has a register, and the one
\* declared in every generated block, has exactly one entry per populated
\* word and none for an empty word, ordered from the highest populated word
\* (leftmost) to the lowest, each entry being the word index.
C1_AddrVectEntries ==
    /\ \A block \in Range(memMap.addressBlock) :
          block.register # <<>> => AddrVectOK(block, calc_addr_vect_value(block))
    /\ \A i \in ItemsOf("architecture") :
          AddrVectOK(BlockNamed(Emitted[i].block), AddrVectOf(i))

\* A block with an empty word between two populated words has been generated.
C1_Witness ==
    \E i \in ItemsOf("architecture") :
        LET pw == PopulatedWords(BlockNamed(Emitted[i].block))
        IN  /\ Cardinality(pw) >= 2
            /\ \E a, c \in pw : \E b \in (a + 1)..(c - 1) : b \notin pw
            /\ Len(AddrVectOf(i)) > 0

\* C2: the bit length of the address vector is the number of populated words
\* times the word address width of the block.
C2_AddrVectLength ==
    \A i \in ItemsOf("architecture") :
        LET block == BlockNamed(Emitted[i].block)
        IN  Len(AddrVectOf(i)) =
                Cardinality(PopulatedWords(block)) * calc_wrd_address_width(block)

\* C3: the byte-enable range bound to a storage cell, an access signaller and
\* a cover point of a register is low = offset mod word width, high = low +
\* size/8 - 1.
ByteEnableOK(be, reg) ==
    /\ be.l = reg.addressOffset % wrdWidthByte
    /\ be.h = be.l + (reg.size \div 8) - 1

C3_ByteEnableRange ==
    /\ \A i \in InstancesOf("memory_reg") :
          ByteEnableOK(Emitted[i].p.ports.w_be,
                       RegNamed(BlockNamed(Emitted[i].block), Emitted[i].p.reg))
    /\ \A i \in InstancesOf("access_signaler") :
          ByteEnableOK(Emitted[i].p.ports.be,
                       RegNamed(BlockNamed(Emitted[i].block), Emitted[i].p.reg))
    /\ \A i \in ItemsOf("cover") :
          ByteEnableOK(Emitted[i].p.be,
                       RegNamed(BlockNamed(Emitted[i].block), Emitted[i].p.reg))

\* The register a storage cell was generated for.
RegOfInstance(i) == RegNamed(BlockNamed(Emitted[i].block), Emitted[i].p.reg)

\* Bit i (0 = least significant) of a mask literal of the given size.
MaskBit(mask, size, i) == mask[size - i]

Covers(f, i) == f.bitOffset <= i /\ i < f.bitOffset + f.bitWidth

OnesIn(mask) == Cardinality({k \in 1..Len(mask) : mask[k] = 1})

RECURSIVE SumWidths(_)
SumWidths(fields) ==
    IF fields = <<>> THEN 0 ELSE Head(fields).bitWidth + SumWidths(Tail(fields))

AllRegs == UNION {Range(block.register) : block \in Range(memMap.addressBlock)}

DataMaskOK(reg, mask) ==
    /\ Len(mask) = reg.size
    /\ \A b \in 0..(reg.size - 1) :
          MaskBit(mask, reg.size, b) = 1 <=> \E f \in Range(reg.field) : Covers(f, b)
    /\ OnesIn(mask) = SumWidths(reg.field)

\* C4: the data mask of every register, and the one bound in every storage
\* cell, has the length of the register, bit i is set exactly when some field
\* covers bit i, and the number of set bits is the sum of the field widths.
C4_DataMask ==
    /\ \A reg \in AllRegs : DataMaskOK(reg, calc_reg_data_mask(reg))
    /\ \A i \in InstancesOf("memory_reg") :
          DataMaskOK(RegOfInstance(i), Emitted[i].p.generics.data_mask)

\* A storage cell of a register with two fields, given in descending order
\* of bit offset, with an uncovered bit between them and a multi-bit field.
C4_Witness ==
    \E i \in InstancesOf("memory_reg") :
        LET reg == RegOfInstance(i)
        IN  /\ Len(reg.field) = 2
            /\ reg.field[1].bitOffset > reg.field[2].bitOffset + reg.field[2].bitWidth
            /\ reg.field[1].bitWidth > 1
            /\ OnesIn(Emitted[i].p.generics.data_mask) = SumWidths(reg.field)

ResetMaskOK(reg, mask) ==
    /\ Len(mask) = reg.size
    /\ \A f \in Range(reg.field) : \A j \in 0..(f.bitWidth - 1) :
          MaskBit(mask, reg.size, f.bitOffset + j) = NumBit(f.reset, j)
    /\ \A b \in 0..(reg.size - 1) :
          (~\E f \in Range(reg.field) : Covers(f, b)) => MaskBit(mask, reg.size, b) = 0

\* C5: bit (bitOffset + j) of the reset mask of every register, and of the
\* one bound in every storage cell, is bit j of the field's reset value, and a
\* bit no field covers is 0.
C5_ResetMask ==
    /\ \A reg \in AllRegs : ResetMaskOK(reg, calc_reg_rstval_mask(reg))
    /\ \A i \in InstancesOf("memory_reg") :
          ResetMaskOK(RegOfInstance(i), Emitted[i].p.generics.reset_value)

\* Bit i is marked autoclear by field f.
AutoclearBy(f, i) ==
    /\ f.modifiedWriteValue = "clear"
    /\ IF f.bitWidth > 1
       THEN f.bitOffset <= i /\ i <= f.bitOffset + f.bitWidth - 2
       ELSE i = f.bitOffset

AutoclearMaskOK(reg, mask) ==
    /\ Len(mask) = reg.size
    /\ \A b \in 0..(reg.size - 1) :
          MaskBit(mask, reg.size, b) = 1 <=> \E f \in Range(reg.field) : AutoclearBy(f, b)

ReadableAt(block, byte) ==
    { r \in Range(block.register) :
        StrIn("read", r.access) /\ r.addressOffset = byte }

ReadableOver(block, byte) ==
    { r \in Range(block.register) :
        /\ StrIn("read", r.access)
        /\ r.addressOffset <= byte
        /\ byte < r.addressOffset + (r.size \div 8) }

ReadSource(block, r) ==
    IF r.access = "read-write"
    THEN <<Lower(block.name), "_out_i.", Lower(r.name)>>
    ELSE <<Lower(block.name), "_in.", Lower(r.name)>>

\* The operands a word is expected to have, lane by lane from lane down to 0.
RECURSIVE LaneOperands(_, _, _)
LaneOperands(block, addr, lane) ==
    IF lane < 0 THEN <<>>
    ELSE (IF ReadableAt(block, addr + lane) # {}
          THEN LET r == CHOOSE x \in ReadableAt(block, addr + lane) : TRUE
               IN  <<RegOperand(ReadSource(block, r), r.size)>>
          ELSE IF ReadableOver(block, addr + lane) # {} THEN <<>>
          ELSE <<ZeroByte>>)
         \o LaneOperands(block, addr, lane - 1)

Operands(value) == LET IsOperand(x) == x.item # "&" IN SelectSeq(value, IsOperand)

RECURSIVE SumBits(_)
SumBits(ops) == IF ops = <<>> THEN 0 ELSE Head(ops).bits + SumBits(Tail(ops))

\* C7: the read value of every word of the readable span lists, from the most
\* significant lane down, each readable register that starts in the word once
\* (from <block>_out_i when it is read-write, from <block>_in otherwise),
\* nothing for the further lanes such a register covers, and eight zero bits
\* for every lane no readable register covers; it is one word wide, and all
\* zero when the word has no readable register.
C7_ReadWord ==
    \A i \in ItemsOf("read_word") :
        LET block == BlockNamed(Emitted[i].block)
            addr == Emitted[i].p.addr
            ops == Operands(Emitted[i].p.value)
        IN  /\ ops = LaneOperands(block, addr, wrdWidthByte - 1)
            /\ SumBits(ops) = 8 * wrdWidthByte
            /\ \A r \in Range(block.register) :
                  (StrIn("read", r.access) /\ WordOf(r.addressOffset) = addr)
                      => Cardinality({k \in 1..Len(ops) :
                                         ops[k] = RegOperand(ReadSource(block, r),
                                                             r.size)}) = 1
            /\ (\A r \in Range(block.register) :
                    StrIn("read", r.access) => WordOf(r.addressOffset) # addr)
                  => ops = [k \in 1..wrdWidthByte |-> ZeroByte]

\* A word with a two-byte read-write register, a pure-read register and a
\* lane without a register has been emitted, and so has a word without any
\* readable register.
C7_Witness ==
    /\ \E i \in ItemsOf("read_word") :
          LET ops == Operands(Emitted[i].p.value)
          IN  /\ \E k \in 1..Len(ops) :
                    ops[k].item = "reg" /\ ops[k].bits = 16 /\ ops[k].name[2] = "_out_i."
              /\ \E k \in 1..Len(ops) : ops[k].item = "reg" /\ ops[k].name[2] = "_in."
              /\ \E k \in 1..Len(ops) : ops[k] = ZeroByte
    /\ \E i \in ItemsOf("read_word") :
          Operands(Emitted[i].p.value) = [k \in 1..wrdWidthByte |-> ZeroByte]

RecordsOf(suffix) ==
    {i \in ItemsOf("record") : Emitted[i].p.name[2] = suffix}

DeclsNamed(decls, name) == {k \in 1..Len(decls) : decls[k].name = name}

\* The register a declaration of a record belongs to.
RegOfDecl(block, decl) == RegNamed(block, decl.name[1])

AscendingOffsets(block, decls) ==
    \A j, k \in 1..Len(decls) :
        j < k => RegOfDecl(block, decls[j]).addressOffset
                     <= RegOfDecl(block, decls[k]).addressOffset

C9_InputRecord ==
    \A i \in RecordsOf("_in_t") :
        LET block == BlockNamed(Emitted[i].block)
            decls == Emitted[i].p.decls
        IN  /\ block.usage # "memory"
            /\ \A r \in Range(block.register) :
                  Cardinality(DeclsNamed(decls, <<r.name>>)) =
                      (IF r.access = "read-only" THEN 1 ELSE 0)
            /\ \A k \in 1..Len(decls) :
                  \E r \in Range(block.register) :
                      decls[k] = Decl(<<r.name>>, "std_logic_vector", r.size)
            /\ AscendingOffsets(block, decls)

\* An input record with two fields of a block whose register list is not in
\* address order, and one of a block with a read-write and a write-only
\* register that has no field.
C9_Witness ==
    /\ \E i \in RecordsOf("_in_t") :
          LET block == BlockNamed(Emitted[i].block)
          IN  /\ Len(Emitted[i].p.decls) = 2
              /\ block.register[1].addressOffset > block.register[2].addressOffset
    /\ \E i \in RecordsOf("_in_t") :
          LET block == BlockNamed(Emitted[i].block)
          IN  /\ Emitted[i].p.decls = <<>>
              /\ \E r \in Range(block.register) : r.access = "read-write"
              /\ \E r \in Range(block.register) : r.access = "write-only"

\* Names of the records a package is expected to declare, block by block.
RECURSIVE ExpectedRecords(_)
ExpectedRecords(blocks) ==
    IF blocks = <<>> THEN <<>>
    ELSE (IF Head(blocks).usage # "memory"
          THEN << <<Head(blocks).name, "_out_t">>, <<Head(blocks).name, "_in_t">> >>
          ELSE <<>>)
         \o ExpectedRecords(Tail(blocks))

\* The names of the records emitted between item i and the next end of a
\* package.
RECURSIVE RecordsFrom(_)
RecordsFrom(i) ==
    IF i > Len(Emitted) \/ Emitted[i].kind = "end_package" THEN <<>>
    ELSE (IF Emitted[i].kind = "record" THEN <<Emitted[i].p.name>> ELSE <<>>)
         \o RecordsFrom(i + 1)

\* C10: every package is named from the address map, holds the output and
\* the input record of every block that is not a memory, in the order of the
\* blocks in the map, and no record of a memory block is emitted.
C10_Package ==
    /\ \A i \in ItemsOf("package") :
          /\ Emitted[i].p.name = <<Lower(memMap.name), "_pkg">>
          /\ RecordsFrom(i + 1) = ExpectedRecords(memMap.addressBlock)
    /\ \A i \in ItemsOf("record") :
          /\ BlockNamed(Emitted[i].block).usage # "memory"
          /\ \E k \in ItemsOf("package") :
                k < i /\ \A j \in k..i : Emitted[j].kind # "end_package"

\* A package has been emitted for a map whose first block is a memory and
\* whose second is not, and one for a map with two blocks that are not.
C10_Witness ==
    /\ ItemsOf("package") # {}
    /\ Len(memMap.addressBlock) = 2
    /\ memMap.addressBlock[1].usage = "memory"
    /\ memMap.addressBlock[2].usage # "memory"
    /\ ItemsOf("record") # {}

(***************************************************************************)
(* Malformed address maps.                                                 *)
(***************************************************************************)
Malformed(reg) ==
    \/ reg.size % 8 # 0
    \/ \E i, j \in 1..Len(reg.field) : i < j /\ FieldsOverlap(reg.field[i], reg.field[j])
    \/ \E f \in Range(reg.field) : Len(f.reset) > f.bitWidth

\* The items generated from one register: its storage cell, its access
\* signaller, its constant driver and its coverage points.
ItemsFromRegs ==
    {i \in 1..Len(Emitted) :
        /\ Emitted[i].sect \in {"create_reg_instance", "create_access_signaller",
                               "create_psl_cover_point"}
        /\ Emitted[i].kind \in {"instance", "connection", "cover"}}

\* C11: a malformed register (overlapping fields, a width that is not a
\* multiple of 8, a reset value wider than its field) is fatal to its block:
\* no storage cell, access signaller, constant driver or coverage point is
\* ever emitted from it, and the architecture of its block is not emitted.
C11_MalformedFatal ==
    /\ \A i \in ItemsFromRegs :
          ~Malformed(RegNamed(BlockNamed(Emitted[i].block), Emitted[i].p.reg))
    /\ \A i \in ItemsOf("architecture") :
          \A reg \in Range(BlockNamed(Emitted[i].block).register) : ~Malformed(reg)

(***************************************************************************)
(* Blocks without a readable register.                                     *)
(***************************************************************************)
NoReadable(block) ==
    /\ block.register # <<>>
    /\ \A reg \in Range(block.register) : ~reg_has_access_type(reg, {"read"})

\* Items of block b emitted after position i.
LaterItems(i, b) ==
    {k \in (i + 1)..Len(Emitted) : Emitted[k].block = b}

ReadPathItem(k) ==
    \/ Emitted[k].kind = "read_word"
    \/ Emitted[k].kind = "instance" /\ Emitted[k].p.comp = "data_mux"

\* C12: for a block that has registers but no readable one the empty word span is
\* handled explicitly: write_reg_block runs to the end of the architecture,
\* emitting neither a read-data multiplexer instance nor a read-data driver
\* for the block.
C12_EmptySpanShortCircuit ==
    \A i \in ItemsOf("entity") :
        NoReadable(BlockNamed(Emitted[i].block)) =>
            /\ \E k \in LaterItems(i, Emitted[i].block) :
                  Emitted[k].kind = "end_architecture"
            /\ \A k \in LaterItems(i, Emitted[i].block) : ~ReadPathItem(k)

(***************************************************************************)
(* Repeated generation.                                                    *)
(***************************************************************************)
\* What one call of write_reg_block or write_reg_map_pkg can append.
PassChunks ==
    {write_reg_block_items(block) : block \in Range(memMap.addressBlock)}
    \cup {write_reg_map_pkg_items}

\* The first item of the output of a call.
Starts ==
    {i \in 1..Len(Emitted) :
        /\ Emitted[i].kind = "comment"
        /\ Emitted[i].sect \in {"write_reg_block", "write_reg_map_pkg"}}

\* The output of the call that starts at item i.
ChunkAt(i) ==
    LET later == {k \in Starts : k > i}
        stop == IF later = {} THEN Len(Emitted) + 1
                ELSE CHOOSE k \in later : \A m \in later : k <= m
    IN  SubSeq(Emitted, i, stop - 1)

\* A step either commits (every buffered line is written once, in order, and
\* the buffer is left empty) or appends to the buffer what one call produces
\* from the model alone.
PassStep ==
    \/ /\ of' = of \o out
       /\ out' = <<>>
    \/ /\ of' = of
       /\ \E chunk \in PassChunks : out' = out \o chunk

SectionRank(item) ==
    CASE item.sect = "create_addr_decoder" -> 1
      [] item.sect \in {"create_reg_instance", "create_access_signaller"} -> 2
      [] item.sect = "create_read_data_mux_ena" -> 3
      [] item.sect = "create_read_data_mux_instance" -> 4
      [] item.sect = "create_read_data_mux_in" -> 5
      [] item.sect = "create_read_data_mask_driver" -> 6
      [] item.sect = "create_write_reg_record_driver" -> 7
      [] item.sect \in {"create_psl_cover_points", "create_psl_cover_point"} -> 8
      [] OTHER -> 0

\* The item that opens a section (the storage cells have none of their own).
SectionHead(item) ==
    \/ item.sect = "create_addr_decoder" /\ item.kind = "instance"
    \/ item.sect = "create_read_data_mux_ena" /\ item.kind = "comment"
    \/ item.sect = "create_read_data_mux_instance" /\ item.kind = "instance"
    \/ item.sect = "create_read_data_mux_in" /\ item.kind = "comment"
    \/ item.sect = "create_read_data_mask_driver" /\ item.kind = "mask_driver"
    \/ item.sect = "create_write_reg_record_driver" /\ item.kind = "connection"
    \/ /\ item.sect = "create_psl_cover_points"
       /\ item.p.text = <<"PSL functional coverage">>

BlockStarts == {i \in Starts : Emitted[i].sect = "write_reg_block"}

\* No item of a section precedes an item of an earlier section.
SectionsInOrder(chunk) ==
    \A j, k \in 1..Len(chunk) :
        (j < k /\ SectionRank(chunk[j]) > 0 /\ SectionRank(chunk[k]) > 0)
            => SectionRank(chunk[j]) <= SectionRank(chunk[k])

\* Every section is there exactly once.
SectionsOnce(chunk) ==
    \A r \in {1, 3, 4, 5, 6, 7, 8} :
        Cardinality({k \in 1..Len(chunk) :
                        SectionRank(chunk[k]) = r /\ SectionHead(chunk[k])}) = 1

\* C14: the output of every call of write_reg_block holds the sections
\* address decoder, storage cells and access signallers, read-multiplexer
\* enable, read-data multiplexer, read-data driver, read-data mask, record
\* wiring and coverage points, each exactly once and in this order.
C14_SectionOrder ==
    \A i \in BlockStarts :
        SectionsInOrder(ChunkAt(i)) /\ SectionsOnce(ChunkAt(i))

\* The order alone, whatever was emitted.
SectionsNeverOutOfOrder == \A i \in BlockStarts : SectionsInOrder(ChunkAt(i))

\* The sections of the calls that ran to the end.
SectionsOfCompleteCalls ==
    \A i \in BlockStarts :
        LET chunk == ChunkAt(i)
        IN  (\E k \in 1..Len(chunk) : chunk[k].kind = "end_architecture")
                => SectionsOnce(chunk)

(***************************************************************************)
(* Storage cells and access signallers.                                    *)
(***************************************************************************)
IsCell(item) == item.kind = "instance" /\ item.p.comp = "memory_reg"

IsSignaller(item) == item.kind = "instance" /\ item.p.comp = "access_signaler"

Writable(reg) == reg.access \in {"write-only", "read-write"}

\* The calls of write_reg_block that reached create_write_reg_instances.
BodyStarts ==
    {i \in BlockStarts :
        LET chunk == ChunkAt(i)
        IN  \E k \in 1..Len(chunk) : chunk[k].kind = "architecture"}

CellsOK(block, items) ==
    LET cells == SelectSeq(items, IsCell)
    IN  /\ \A reg \in Range(block.register) :
              Cardinality({k \in 1..Len(cells) : cells[k].p.reg = reg.name})
                  = IF Writable(reg) THEN 1 ELSE 0
        /\ \A j, k \in 1..Len(cells) :
              j < k => RegNamed(block, cells[j].p.reg).addressOffset
                         < RegNamed(block, cells[k].p.reg).addressOffset

\* C15: create_write_reg_instances emits exactly one storage cell for every
\* writable register of the block and none for any other register, in
\* ascending order of address offset whatever the order of the register list;
\* so do the storage cells of every generated block body.
C15_StorageCells ==
    /\ \A block \in Range(memMap.addressBlock) :
          CellsOK(block, create_write_reg_instances(block))
    /\ \A i \in BodyStarts :
          CellsOK(BlockNamed(Emitted[i].block), ChunkAt(i))

\* A generated block whose register list holds two writable registers in
\* descending order of address offset.
C15_Witness ==
    \E i \in BodyStarts :
        LET block == BlockNamed(Emitted[i].block)
        IN  /\ Len(block.register) = 2
            /\ Writable(block.register[1]) /\ Writable(block.register[2])
            /\ block.register[1].addressOffset > block.register[2].addressOffset
            /\ Len(SelectSeq(ChunkAt(i), IsCell)) = 2

SignallersOK(block, items) ==
    LET sigs == SelectSeq(items, IsSignaller)
    IN  /\ \A reg \in Range(block.register) :
              Cardinality({k \in 1..Len(sigs) : sigs[k].p.reg = reg.name})
                  = IF reg.writeInd \/ reg.readInd THEN 1 ELSE 0
        /\ \A k \in 1..Len(sigs) :
              LET reg == RegNamed(block, sigs[k].p.reg)
                  g == sigs[k].p.generics
              IN  /\ g.write_signalling = reg.writeInd
                  /\ g.read_signalling = reg.readInd
                  /\ g.write_signalling => g.write_signalling_reg
                  /\ g.read_signalling_reg = FALSE

\* C16: an access signaller is emitted for a register exactly when its read
\* or its write indication is enabled, and in every signaller the write
\* indication is registered (write_signalling_reg is true whenever
\* write_signalling is) and the read indication is combinational
\* (read_signalling_reg is false).
C16_AccessSignallers ==
    /\ \A block \in Range(memMap.addressBlock) :
          SignallersOK(block, create_write_reg_instances(block))
    /\ \A i \in BodyStarts :
          SignallersOK(BlockNamed(Emitted[i].block), ChunkAt(i))

\* A generated block with a signaller of a write-indicated register and a
\* register without indication.
C16_Witness ==
    \E i \in BodyStarts :
        LET block == BlockNamed(Emitted[i].block)
            sigs == SelectSeq(ChunkAt(i), IsSignaller)
        IN  /\ Len(sigs) = 1
            /\ sigs[1].p.generics.write_signalling
            /\ sigs[1].p.generics.write_signalling_reg
            /\ \E reg \in Range(block.register) : ~reg.writeInd /\ ~reg.readInd

(***************************************************************************)
(* Presence conditions.                                                    *)
(***************************************************************************)
IsGenerate(item, reg, value) ==
    /\ item.kind = "if_generate"
    /\ item.sect = "create_reg_instance"
    /\ item.p.condition = Upper(parameter_lookup(reg.isPresent))
    /\ item.p.value = value

\* Items k-1 .. k+4 of chunk: the storage cell inside the block of the true
\* parameter, then the block of the false parameter driving the signal the
\* storage cell drives with the reset mask.
ConditionalCell(chunk, k, reg) ==
    /\ k > 1 /\ k + 4 <= Len(chunk)
    /\ IsGenerate(chunk[k - 1], reg, "true")
    /\ chunk[k + 1].kind = "end_generate"
    /\ IsGenerate(chunk[k + 2], reg, "false")
    /\ chunk[k + 3].kind = "connection"
    /\ chunk[k + 3].p.driver = calc_reg_rstval_mask(reg)
    /\ chunk[k + 3].p.result = chunk[k].p.ports.reg_value
    /\ chunk[k + 4].kind = "end_generate"

UnconditionalCell(chunk, k, reg) ==
    /\ k > 1
    /\ chunk[k - 1].kind = "comment"
    /\ \A m \in 1..Len(chunk) :
          (chunk[m].sect = "create_reg_instance" /\ chunk[m].kind # "comment")
              => (m = k \/ chunk[m].p.reg # reg.name)

PresenceOK(block, chunk) ==
    \A k \in 1..Len(chunk) :
        IsCell(chunk[k]) =>
            LET reg == RegNamed(block, chunk[k].p.reg)
            IN  IF reg.isPresent # ""
                THEN ConditionalCell(chunk, k, reg)
                ELSE UnconditionalCell(chunk, k, reg)

\* C17: the storage cell of a register with a presence condition stands in a
\* conditional block of the true parameter, followed by the block of the
\* false parameter in which the value signal of the register (the signal the
\* storage cell drives and the read path and the record wiring consume) is
\* driven with the reset mask; the storage cell of a register without
\* presence condition is unconditional and has no constant driver.
C17_PresenceCondition ==
    /\ \A block \in Range(memMap.addressBlock) :
          PresenceOK(block, create_write_reg_instances(block))
    /\ \A i \in BodyStarts :
          PresenceOK(BlockNamed(Emitted[i].block), ChunkAt(i))

(***************************************************************************)
(* The size of the address decoder.                                        *)
(***************************************************************************)
\* C18: in every generated block the address_entries generic of the address
\* decoder and the declared width of reg_sel equal the number of entries of
\* the address vector, and the declared bit width of ADDR_VECT equals the bit
\* length of its value.
C18_DecoderSize ==
    /\ \A i \in ItemsOf("architecture") :
          LET decls == Emitted[i].p.decls
          IN  /\ decls.reg_sel.bitWidth = Len(VectEntries(decls.addr_vect.value))
              /\ decls.addr_vect.bitWidth = Len(decls.addr_vect.value)
    /\ \A i \in InstancesOf("address_decoder") :
          Emitted[i].p.generics.address_entries
              = Len(VectEntries(calc_addr_vect_value(BlockNamed(Emitted[i].block))))

(***************************************************************************)
(* The fields of the internal output record.                               *)
(***************************************************************************)
\* The names of the fields create_output_reg_record declares for a block;
\* VHDL names are compared in lower case.
DeclaredFields(block) ==
    LET decls == create_output_reg_record(block)[1].p.decls
    IN  {LowerAll(decls[k].name) : k \in 1..Len(decls)}

\* The field named by a signal <block>_out_i.<field>.
FieldOf(signal) == SubSeq(signal, 3, Len(signal))

Connected(signal) == signal # <<"open">>

ValueFieldsDeclared(block, items) ==
    \A k \in 1..Len(items) :
        IsCell(items[k]) =>
            FieldOf(items[k].p.ports.reg_value) \in DeclaredFields(block)

ReadFieldsDeclared(block, items) ==
    \A k \in 1..Len(items) :
        (IsSignaller(items[k]) /\ Connected(items[k].p.ports.read_signal)) =>
            FieldOf(items[k].p.ports.read_signal) \in DeclaredFields(block)

WriteFieldsDeclared(block, items) ==
    \A k \in 1..Len(items) :
        (IsSignaller(items[k]) /\ Connected(items[k].p.ports.write_signal)) =>
            FieldOf(items[k].p.ports.write_signal) \in DeclaredFields(block)

\* C19: every field of the internal output record that a storage cell
\* (reg_value) or an access signaller (write_signal, read_signal) of a block
\* is connected to is a field create_output_reg_record declares for the
\* block.
C19_RecordFields ==
    /\ \A block \in Range(memMap.addressBlock) :
          LET items == create_write_reg_instances(block)
          IN  /\ ValueFieldsDeclared(block, items)
              /\ ReadFieldsDeclared(block, items)
              /\ WriteFieldsDeclared(block, items)
    /\ \A i \in BodyStarts :
          LET block == BlockNamed(Emitted[i].block)
          IN  /\ ValueFieldsDeclared(block, ChunkAt(i))
              /\ ReadFieldsDeclared(block, ChunkAt(i))
              /\ WriteFieldsDeclared(block, ChunkAt(i))

\* The connections of reg_value and read_signal alone.
ValueAndReadFieldsDeclared ==
    \A block \in Range(memMap.addressBlock) :
        /\ ValueFieldsDeclared(block, create_write_reg_instances(block))
        /\ ReadFieldsDeclared(block, create_write_reg_instances(block))

====
